---- MODULE Spec2Model ----
(***************************************************************************)
(* State-machine model of the ACL editor widget of                         *)
(* frontend/src/ui/Access.tsx: the AclSelector component (combined ACL),   *)
(* its two AclSelect children (Group and User; selection and options       *)
(* lists), the table rows (ListEntry) and the per-row ActionsMenu state.   *)
(*                                                                         *)
(* Every event handler runs to completion and React re-renders before the  *)
(* next event, so every handler is one atomic action that reads the state  *)
(* of the last render.  Component state of a keyed child (the `action`     *)
(* state of an ActionsMenu) lives as long as a row with the same key is    *)
(* rendered; a row that appears is mounted with its initial state.         *)
(***************************************************************************)
EXTENDS Integers, Sequences, FiniteSets, TLC

VARIABLES
    initialAcl,      \* prop of AclSelector
    userIsRequired,  \* prop of AclSelector
    user,            \* what useUser() returns
    roleSelections,  \* useState of AclSelector: the combined ACL
    selection,       \* useState of each AclSelect: the table rows
    options,         \* useState of each AclSelect: the options of the multi-select
    action,          \* useState of each mounted ActionsMenu, by row key (item.label)
    last             \* history: whether the last operation was an edit or a
                     \* reset and, for a reset, whether the widget had left its
                     \* initial state

vars == <<initialAcl, userIsRequired, user, roleSelections, selection, options, action, last>>

Kinds == {"Group", "User"}

Actions == {"read", "write"}

\* Cap on the length of readRoles / writeRoles (the lists only ever grow by appends).
MaxAclLen == 2

-----------------------------------------------------------------------------
(* Sequences and strings *)

Range(s) == {s[i] : i \in 1..Len(s)}

RECURSIVE FilterSeq(_, _)
\* Array.prototype.filter with the predicate given as the set of accepted elements' indices
FilterSeq(s, keep) ==
    IF Len(s) = 0 THEN <<>>
    ELSE LET rest == FilterSeq(Tail(s), {i - 1 : i \in keep \ {1}})
         IN  IF 1 \in keep THEN <<Head(s)>> \o rest ELSE rest

\* [...new Set(s)]: the first occurrence of every element, in order
Dedupe(s) == FilterSeq(s, {i \in 1..Len(s) : \A j \in 1..(i - 1) : s[j] # s[i]})

NoDuplicates(s) == \A i, j \in 1..Len(s) : s[i] = s[j] => i = j

StartsWith(s, prefix) ==
    Len(s) >= Len(prefix) /\ SubSeq(s, 1, Len(prefix)) = prefix

UpperChars ==
    <<"A", "B", "C", "D", "E", "F", "G", "H", "I", "J", "K", "L", "M",
      "N", "O", "P", "Q", "R", "S", "T", "U", "V", "W", "X", "Y", "Z">>

LowerChars ==
    <<"a", "b", "c", "d", "e", "f", "g", "h", "i", "j", "k", "l", "m",
      "n", "o", "p", "q", "r", "s", "t", "u", "v", "w", "x", "y", "z">>

Digits == {"0", "1", "2", "3", "4", "5", "6", "7", "8", "9"}

\* \w of a JavaScript regular expression
WordChars == Range(UpperChars) \cup Range(LowerChars) \cup Digits \cup {"_"}

LowerChar(c) ==
    IF c \in Range(UpperChars)
    THEN LowerChars[CHOOSE i \in 1..26 : UpperChars[i] = c]
    ELSE c

UpperChar(c) ==
    IF c \in Range(LowerChars)
    THEN UpperChars[CHOOSE i \in 1..26 : LowerChars[i] = c]
    ELSE c

RECURSIVE ToLowerCase(_)
ToLowerCase(s) ==
    IF Len(s) = 0 THEN ""
    ELSE LowerChar(SubSeq(s, 1, 1)) \o ToLowerCase(SubSeq(s, 2, Len(s)))

\* /^ROLE_USER_\w+/.test(role)
MatchesUserRole(role) ==
    /\ StartsWith(role, "ROLE_USER_")
    /\ Len(role) > 10
    /\ SubSeq(role, 11, 11) \in WordChars

\* /^ROLE_USER\w+/.test(role)
MatchesUserPrefix(role) ==
    /\ StartsWith(role, "ROLE_USER")
    /\ Len(role) > 9
    /\ SubSeq(role, 10, 10) \in WordChars

-----------------------------------------------------------------------------
(* Data the component imports: util/roles, routes/manage/Video/dummyData, User *)

ROLE_ADMIN == "ROLE_ADMIN"

\* Object.values(DUMMY_GROUPS)
DUMMY_GROUPS ==
    << [label |-> "Everyone", roles |-> <<"ROLE_ANONYMOUS">>] >>

\* Object.values(DUMMY_USERS)
DUMMY_USERS ==
    << [label |-> "Administrator", roles |-> <<"ROLE_ADMIN", "ROLE_USER_ADMIN">>],
       [label |-> "Sabine Rudolfs", roles |-> <<"ROLE_USER_SABINE">>] >>

SUBSET_RELATIONS ==
    << [superset |-> "ROLE_ANONYMOUS", subsets |-> <<"ROLE_STUDENT">>] >>

\* The states of useUser(): nobody logged in, an ordinary user, an administrator
Users ==
    { [real |-> FALSE, roles |-> <<>>],
      [real |-> TRUE, roles |-> <<"ROLE_USER", "ROLE_USER_SABINE">>],
      [real |-> TRUE, roles |-> <<"ROLE_ADMIN", "ROLE_USER_ADMIN">>] }

isRealUser(u) == u.real

-----------------------------------------------------------------------------
(* Helper functions *)

\* name.charAt(0).toUpperCase() + name.slice(1), name the role without its prefix
StripPrefix(role, prefix) ==
    LET name == ToLowerCase(SubSeq(role, Len(prefix) + 1, Len(role)))
    IN  IF Len(name) = 0 THEN ""
        ELSE UpperChar(SubSeq(name, 1, 1)) \o SubSeq(name, 2, Len(name))

formatUnknownRole(role) ==
    IF StartsWith(role, "ROLE_USER_") THEN StripPrefix(role, "ROLE_USER_")
    ELSE IF StartsWith(role, "ROLE_GROUP_") THEN StripPrefix(role, "ROLE_GROUP_")
    ELSE IF StartsWith(role, "ROLE_") THEN StripPrefix(role, "ROLE_")
    ELSE role

getLabel(record, role) ==
    LET name == FilterSeq(record, {i \in 1..Len(record) : role \in Range(record[i].roles)})
    IN  IF Len(name) = 1 THEN name[1].label ELSE formatUnknownRole(role)

\* Array.prototype.find on the roles of an entry, "Unknown" when nothing matches
FindUserRole(roles) ==
    LET found == FilterSeq(roles, {i \in 1..Len(roles) : MatchesUserPrefix(roles[i])})
    IN  IF Len(found) = 0 THEN "Unknown" ELSE found[1]

makeSelection(record, acl) ==
    LET aclArray == Dedupe(acl.readRoles \o acl.writeRoles)
    IN  [i \in 1..Len(aclArray) |->
            [value |-> aclArray[i], label |-> getLabel(record, aclArray[i])]]

makeOptions(record) ==
    LET entries == FilterSeq(record, {i \in 1..Len(record) : record[i].label # "Administrator"})
    IN  [i \in 1..Len(entries) |->
            [value |-> IF Len(entries[i].roles) > 1
                       THEN FindUserRole(entries[i].roles)
                       ELSE entries[i].roles[1],
             label |-> entries[i].label]]

\* splitAcl(initialAcl)[0] for "Group", [1] for "User"
splitAcl(acl, kind) ==
    LET pick(role) == IF kind = "User" THEN MatchesUserRole(role) ELSE ~MatchesUserRole(role)
        part(roles) == FilterSeq(roles, {i \in 1..Len(roles) : pick(roles[i])})
    IN  [readRoles |-> part(acl.readRoles), writeRoles |-> part(acl.writeRoles)]

getUserRole(u) ==
    IF isRealUser(u) THEN FindUserRole(u.roles) ELSE "Unknown"

-----------------------------------------------------------------------------
(* AclSelect: what every render computes from its props *)

Record(kind) == IF kind = "Group" THEN DUMMY_GROUPS ELSE DUMMY_USERS

allOptions(kind) == makeOptions(Record(kind))

Values(items) == {items[i].value : i \in 1..Len(items)}

Labels(items) == {items[i].label : i \in 1..Len(items)}

IsSuperset(role) == \E i \in 1..Len(SUBSET_RELATIONS) : SUBSET_RELATIONS[i].superset = role

\* items.sort(roleComparator): a stable sort that puts the supersets first
SortByScope(items) ==
    FilterSeq(items, {i \in 1..Len(items) : IsSuperset(items[i].value)})
        \o FilterSeq(items, {i \in 1..Len(items) : ~IsSuperset(items[i].value)})

defaultDummyOption == [value |-> ROLE_ADMIN, label |-> "Administrator"]

SortedInitialSelection(kind) ==
    SortByScope(makeSelection(Record(kind), splitAcl(initialAcl, kind)))

initialSelections(kind) ==
    LET sorted == SortedInitialSelection(kind)
    IN  IF kind = "User" /\ "Administrator" \notin Labels(sorted)
        THEN <<defaultDummyOption>> \o sorted
        ELSE sorted

initialOptions(kind) ==
    LET all == allOptions(kind)
    IN  FilterSeq(all, {i \in 1..Len(all) : all[i].value \notin Values(SortedInitialSelection(kind))})

-----------------------------------------------------------------------------
(* ListEntry and ActionsMenu: what a row renders *)

isAdminItem(item) == item.value = ROLE_ADMIN

isUser(item) == item.value = getUserRole(user)

\* ListEntry returns null for the admin row unless the user is an administrator
RowRendered(item) ==
    ~(isAdminItem(item) /\ isRealUser(user) /\ ROLE_ADMIN \notin Range(user.roles))

\* Mutation of RemoveDisabled: the userIsRequired clause dropped
RemoveDisabledAdminOnly(item) == isAdminItem(item)

\* `disabled` of the remove button of a row
RemoveDisabled(item) == isAdminItem(item) \/ (userIsRequired /\ isUser(item))

\* ActionsMenu renders the floating menu, not the fixed "write" text
MenuShown(item) ==
    ~(item.value = ROLE_ADMIN \/ (userIsRequired /\ item.value = getUserRole(user)))

initialAction(item, acl) ==
    IF item.value \in Range(acl.writeRoles) THEN "write" ELSE "read"

\* The rows of a table that mount an ActionsMenu, by their React key
MountedKeys(items) == {items[i].label : i \in {j \in 1..Len(items) : RowRendered(items[j])}}

FirstWithKey(items, key) ==
    items[CHOOSE i \in 1..Len(items) :
            /\ items[i].label = key
            /\ \A j \in 1..(i - 1) : items[j].label # key]

\* React's reconciliation of the rows after a render with the tables `sel` and the
\* ACL `acl`: a row whose key was rendered before keeps its state, a new row
\* starts from initialAction, a row that is gone loses its state.
Reconcile(sel, acl, old) ==
    [k \in Kinds |->
        [key \in MountedKeys(sel[k]) |->
            IF key \in DOMAIN old[k] THEN old[k][key]
            ELSE initialAction(FirstWithKey(sel[k], key), acl)]]

-----------------------------------------------------------------------------
(* The state machine *)

\* The ACLs the component is constructed with (no role twice in a list, every
\* writer also a reader)
InitialAcls ==
    { [readRoles |-> <<"ROLE_ANONYMOUS">>, writeRoles |-> <<>>],
      [readRoles |-> <<"ROLE_USER_SABINE">>, writeRoles |-> <<"ROLE_USER_SABINE">>] }

\* What the user types into the creatable select
CreateInputs == {"ROLE_TEST", "test"}

\* The pasted texts, each the list of its trimmed lines: a known name, an
\* unknown name, both, the same name twice
PasteTexts ==
    { <<"Sabine Rudolfs">>,
      <<"Nobody">>,
      <<"Nobody", "Sabine Rudolfs">>,
      <<"Sabine Rudolfs", "Sabine Rudolfs">> }

\* Whether the widget has left the state it was constructed in
Dirty ==
    \/ roleSelections # initialAcl
    \/ \E k \in Kinds : selection[k] # initialSelections(k) \/ options[k] # initialOptions(k)

Init ==
    /\ initialAcl \in InitialAcls
    /\ userIsRequired \in BOOLEAN
    /\ user \in Users
    /\ roleSelections = initialAcl
    /\ selection = [k \in Kinds |-> initialSelections(k)]
    /\ options = [k \in Kinds |-> initialOptions(k)]
    /\ action = Reconcile([k \in Kinds |-> initialSelections(k)], initialAcl,
                          [k \in Kinds |-> <<>>])
    /\ last = [op |-> "init", dirty |-> FALSE]

\* The state updates a handler queued, followed by the re-render
Commit(op, acl, sel, opts, act) ==
    /\ roleSelections' = acl
    /\ selection' = sel
    /\ options' = opts
    /\ action' = Reconcile(sel, acl, act)
    /\ last' = [op |-> op, dirty |-> op = "reset" /\ Dirty]
    /\ UNCHANGED <<initialAcl, userIsRequired, user>>

-----------------------------------------------------------------------------
(* AclSelect.handleChange, called by the select with `choice` = the selected
   values followed by the option picked, and by handlePaste *)

\* choice.filter(option => !selection.includes(option)).map(option => option.label)
HandleChangeNewRoles(k, choice) ==
    LET fresh == FilterSeq(choice, {i \in 1..Len(choice) : choice[i] \notin Range(selection[k])})
    IN  [i \in 1..Len(fresh) |-> fresh[i].label]

HandleChangeSelection(choice) == SortByScope(choice)

\* Mutation of HandleChangeOptions: the options left as they were
HandleChangeOptionsKept(k, choice) == options[k]

HandleChangeOptions(k, choice) ==
    FilterSeq(options[k], {i \in 1..Len(options[k]) : options[k][i].value \notin Values(choice)})

HandleChangeAcl(k, choice) ==
    [roleSelections EXCEPT !.readRoles = @ \o HandleChangeNewRoles(k, choice)]

handleChange(op, k, choice) ==
    /\ Len(roleSelections.readRoles) + Len(HandleChangeNewRoles(k, choice)) <= MaxAclLen
    /\ Commit(op,
              HandleChangeAcl(k, choice),
              [selection EXCEPT ![k] = HandleChangeSelection(choice)],
              [options EXCEPT ![k] = HandleChangeOptions(k, choice)],
              action)

\* The user picks an option of the menu; the select offers the options that are
\* not selected and hands handleChange the selected values plus the option.
Select(k) ==
    \E i \in 1..Len(options[k]) :
        /\ options[k][i].value \notin Values(selection[k])
        /\ handleChange("edit", k, Append(selection[k], options[k][i]))

\* names.map(name => options.filter(option => option.label === name)[0])
\*      .filter(option => option !== undefined)
OptionsToAdd(k, names) ==
    LET found == FilterSeq(names, {i \in 1..Len(names) : names[i] \in Labels(options[k])})
    IN  [i \in 1..Len(found) |-> FirstWithKey(options[k], found[i])]

handlePaste(k) ==
    IF k = "User"
    THEN \E names \in PasteTexts :
            IF Len(OptionsToAdd(k, names)) > 0
            THEN handleChange("edit", k, selection[k] \o OptionsToAdd(k, names))
            ELSE Commit("edit", roleSelections, selection, options, action)
    ELSE Commit("edit", roleSelections, selection, options, action)

-----------------------------------------------------------------------------
(* AclSelect.handleCreate, called by the creatable select (onCreateOption) *)

\* The creatable select offers to create `input` only when it is not empty and
\* equals, ignoring case, neither the value nor the label of a selected value
\* (its `value` prop) or of an option (its `options` prop).
IsValidNewOption(k, input) ==
    LET same(option) == \/ ToLowerCase(option.value) = ToLowerCase(input)
                        \/ ToLowerCase(option.label) = ToLowerCase(input)
    IN  /\ Len(input) > 0
        /\ \A i \in 1..Len(selection[k]) : ~same(selection[k][i])
        /\ \A i \in 1..Len(options[k]) : ~same(options[k][i])

HandleCreateSelection(k, inputValue) ==
    Append(selection[k], [value |-> inputValue, label |-> formatUnknownRole(inputValue)])

HandleCreateAcl(inputValue) ==
    [roleSelections EXCEPT !.readRoles = Append(@, inputValue)]

handleCreate(k) ==
    \E inputValue \in CreateInputs :
        /\ IsValidNewOption(k, inputValue)
        /\ IF ~StartsWith(inputValue, "ROLE_")
           THEN Commit("edit", roleSelections, selection, options, action)
           ELSE /\ Len(roleSelections.readRoles) < MaxAclLen
                /\ Commit("edit",
                          HandleCreateAcl(inputValue),
                          [selection EXCEPT ![k] = HandleCreateSelection(k, inputValue)],
                          options,
                          action)

-----------------------------------------------------------------------------
(* AclSelect.remove, called by the remove button of a row *)

\* items.filter(option => option.value !== item.value)
filterItem(items, item) ==
    FilterSeq(items, {i \in 1..Len(items) : items[i].value # item.value})

RemoveOptions(k, item) ==
    LET all == allOptions(k)
    IN  IF item.value \in Values(all)
        THEN FilterSeq(all, {i \in 1..Len(all) :
                                all[i].value \notin Values(filterItem(selection[k], item))})
        ELSE Append(options[k], item)

RemoveAcl(item) ==
    [readRoles |-> FilterSeq(roleSelections.readRoles,
                             {i \in 1..Len(roleSelections.readRoles) :
                                 roleSelections.readRoles[i] # item.value}),
     writeRoles |-> FilterSeq(roleSelections.writeRoles,
                              {i \in 1..Len(roleSelections.writeRoles) :
                                  roleSelections.writeRoles[i] # item.value})]

remove(k) ==
    \E i \in 1..Len(selection[k]) :
        LET item == selection[k][i]
        IN  /\ RowRendered(item)
            /\ ~RemoveDisabled(item)
            /\ Commit("edit",
                      RemoveAcl(item),
                      [selection EXCEPT ![k] = filterItem(selection[k], item)],
                      [options EXCEPT ![k] = RemoveOptions(k, item)],
                      action)

-----------------------------------------------------------------------------
(* ActionsMenu: onClick of the menu item `actionType` of a row *)

OnClickWriteRoles(item, actionType) ==
    IF actionType = "write"
    THEN Append(roleSelections.writeRoles, item.value)
    ELSE FilterSeq(roleSelections.writeRoles,
                   {i \in 1..Len(roleSelections.writeRoles) :
                       roleSelections.writeRoles[i] # item.value})

onClick(k) ==
    \E i \in 1..Len(selection[k]), actionType \in Actions :
        LET item == selection[k][i]
        IN  /\ RowRendered(item)
            /\ MenuShown(item)
            /\ actionType # action[k][item.label]
            /\ actionType = "write" => Len(roleSelections.writeRoles) < MaxAclLen
            /\ Commit("edit",
                      [roleSelections EXCEPT !.writeRoles = OnClickWriteRoles(item, actionType)],
                      selection,
                      options,
                      [action EXCEPT ![k][item.label] = actionType])

-----------------------------------------------------------------------------
(* The imperative handle of AclSelector *)

\* AclSelect's reset: setSelection(initialSelections)
ResetSelection(k) == initialSelections(k)

\* Mutation of ResetOptions: the setOptions(initialOptions) call forgotten
ResetOptionsForgotten(k) == options[k]

\* AclSelect's reset: setOptions(initialOptions)
ResetOptions(k) == initialOptions(k)

\* AclSelector's reset: setRoleSelections(initialAcl)
ResetRoleSelections == initialAcl

reset ==
    Commit("reset",
           ResetRoleSelections,
           [k \in Kinds |-> ResetSelection(k)],
           [k \in Kinds |-> ResetOptions(k)],
           action)

\* handle.selections
selections == roleSelections

Next ==
    \/ \E k \in Kinds : Select(k)
    \/ \E k \in Kinds : handlePaste(k)
    \/ \E k \in Kinds : handleCreate(k)
    \/ \E k \in Kinds : remove(k)
    \/ \E k \in Kinds : onClick(k)
    \/ reset

Spec == Init /\ [][Next]_vars

-----------------------------------------------------------------------------
(* Properties *)

Grantees == Range(roleSelections.readRoles) \cup Range(roleSelections.writeRoles)

\* The current user's row is in the User table
UserEntryInTable == getUserRole(user) \in Values(selection["User"])

UserRoleInAcl == getUserRole(user) \in Grantees

\* C1: after reset() the combined ACL equals initialAcl and the selection and
\* options of both selectors equal the initial selection and the initial options
\* computed from initialAcl, whatever happened before.
C1_ResetRestoresInitial ==
    last.op = "reset" =>
        /\ selections = initialAcl
        /\ \A k \in Kinds : /\ selection[k] = initialSelections(k)
                            /\ options[k] = initialOptions(k)

\* reset() was called on a widget that had left its initial state
C1_Witness == last.op = "reset" /\ last.dirty

\* C2: with userIsRequired the role of the current user (there being one) is in
\* writeRoles of the ACL exposed as `selections`, in every reachable state and
\* for every initialAcl.
C2_RequiredUserHasWrite ==
    (userIsRequired /\ isRealUser(user))
        => getUserRole(user) \in Range(selections.writeRoles)

\* C3: with userIsRequired, once the current user's row is in the User table no
\* widget operation other than reset (remove, change action, select, paste,
\* create) takes the row out of the table or the user's role out of the ACL.
C3_RequiredUserStays ==
    [][(userIsRequired /\ last'.op # "reset" /\ UserEntryInTable)
            => (UserEntryInTable' /\ (UserRoleInAcl => UserRoleInAcl'))]_vars

\* The required user's row is in the table and the role in the ACL after rows
\* were created and removed (a created role is an option only once its row was
\* removed)
C3_Witness ==
    /\ userIsRequired
    /\ UserEntryInTable
    /\ UserRoleInAcl
    /\ last.op = "edit"
    /\ \E k \in Kinds : Values(options[k]) \ Values(allOptions(k)) # {}

\* C4: every row of the two tables, other than the implicitly added
\* Administrator entry, has its role value in readRoles or writeRoles.
C4_RowsAreGrantees ==
    \A k \in Kinds : \A i \in 1..Len(selection[k]) :
        ~(k = "User" /\ selection[k][i] = defaultDummyOption)
            => selection[k][i].value \in Grantees

\* C5: every string in readRoles or writeRoles is the role value of a row of the
\* Group or the User table.
C5_GranteesAreRows ==
    \A role \in Grantees : \E k \in Kinds : role \in Values(selection[k])

\* C6: neither readRoles nor writeRoles holds the same string twice (the initial
\* ACLs hold none twice).
C6_NoDuplicateRoles ==
    /\ NoDuplicates(roleSelections.readRoles)
    /\ NoDuplicates(roleSelections.writeRoles)

\* C7: the action held by the ActionsMenu of every row whose menu is shown is
\* "write" exactly when the row's role value is in writeRoles.
C7_ActionMatchesAcl ==
    \A k \in Kinds : \A i \in 1..Len(selection[k]) :
        LET item == selection[k][i]
        IN  (RowRendered(item) /\ MenuShown(item))
                => (action[k][item.label] = "write"
                        <=> item.value \in Range(roleSelections.writeRoles))

\* C8: within one AclSelect no role value is both in the selection and in the
\* options.
C8_SelectionOptionsDisjoint ==
    \A k \in Kinds : Values(selection[k]) \cap Values(options[k]) = {}

\* A created role was removed again and is offered as an option, next to a
\* table that still has rows
C8_Witness ==
    /\ last.op = "edit"
    /\ \E k \in Kinds :
        /\ Values(options[k]) \ Values(allOptions(k)) # {}
        /\ Len(selection[k]) > 0

====
